---- MODULE Spec2Model ----
(***************************************************************************)
(* Model of content/OpenAISDK/7.0-spreadsheet-agent.py: six tool functions *)
(* wrapping the Google Sheets values API (get, update, append, clear), the *)
(* record building of read_sheet_data, the three analyses of               *)
(* analyze_sheet_data and the report of create_summary_report.             *)
(*                                                                         *)
(* A Python str is a sequence of fragments (TLA+ strings); a cell of a     *)
(* sheet is written one character per fragment, so that strip, replace,    *)
(* isdigit and float work on its characters.  A Python dict is the         *)
(* sequence of its <<key, value>> items in insertion order.  A JSON text   *)
(* is the pair of the serialised object and the indent it was written with.*)
(* The function_tool decorator is taken to leave each tool callable, as the *)
(* nested calls of lines 276, 367 and 411 need; floats are exact fractions. *)
(***************************************************************************)
EXTENDS Integers, Sequences, FiniteSets, TLC

VARIABLES current_spreadsheet_id, current_sheet_name, pc, invocation,
          remote_calls, result

vars == <<current_spreadsheet_id, current_sheet_name, pc, invocation,
          remote_calls, result>>

----------------------------------------------------------------------------
(* Python values *)

None == {}

Some(v) == {v}

EmptyStr == <<>>

Whitespace == {" ", "\t"}

Digit == {"0", "1", "2", "3", "4", "5", "6", "7", "8", "9"}

RECURSIVE lstrip(_)
lstrip(s) ==
    IF s # <<>> /\ Head(s) \in Whitespace THEN lstrip(Tail(s)) ELSE s

RECURSIVE rstrip(_)
rstrip(s) ==
    IF s # <<>> /\ s[Len(s)] \in Whitespace
    THEN rstrip(SubSeq(s, 1, Len(s) - 1))
    ELSE s

\* str.strip()
strip(s) == rstrip(lstrip(s))

\* str.replace(old, '') for a one-character old
replace(s, old) == SelectSeq(s, LAMBDA c : c # old)

\* str.isdigit(): at least one character, and every character a digit
isdigit(s) == s # <<>> /\ \A i \in 1..Len(s) : s[i] \in Digit

DigitValue(c) == CHOOSE n \in 0..9 : <<"0", "1", "2", "3", "4", "5", "6", "7", "8", "9">>[n + 1] = c

RECURSIVE DecimalValue(_)
DecimalValue(s) ==
    IF s = <<>> THEN 0
    ELSE 10 * DecimalValue(SubSeq(s, 1, Len(s) - 1)) + DigitValue(s[Len(s)])

RECURSIVE Pow10(_)
Pow10(n) == IF n = 0 THEN 1 ELSE 10 * Pow10(n - 1)

\* str(n) for an int n >= 0
RECURSIVE str(_)
str(n) ==
    IF n < 10 THEN <<(<<"0", "1", "2", "3", "4", "5", "6", "7", "8", "9">>)[n + 1]>>
    ELSE str(n \div 10) \o str(n % 10)

(* Outcome of a Python expression or call: a value, or a raised exception *)
Return(v) == [raised |-> FALSE, value |-> v]

Raise(e) == [raised |-> TRUE, value |-> e]

\* float(s) of a string of digits, '.' and '-': the number as the fraction
\* <<numerator, denominator>>, or ValueError
float(s) ==
    LET neg  == s # <<>> /\ Head(s) = "-"
        body == IF neg THEN Tail(s) ELSE s
        dots == {i \in 1..Len(body) : body[i] = "."}
        int  == IF dots = {} THEN body
                ELSE SubSeq(body, 1, (CHOOSE i \in dots : TRUE) - 1)
        frac == IF dots = {} THEN <<>>
                ELSE SubSeq(body, (CHOOSE i \in dots : TRUE) + 1, Len(body))
        ok   == /\ Cardinality(dots) <= 1
                /\ \A i \in 1..Len(body) : body[i] \in Digit \cup {"."}
                /\ Len(int) + Len(frac) > 0
        mag  == DecimalValue(int \o frac)
    IN  IF ok
        THEN Return(<<IF neg THEN 0 - mag ELSE mag, Pow10(Len(frac))>>)
        ELSE Raise(<<"ValueError">>)

(* dict: the sequence of its items, in insertion order *)
EmptyDict == <<>>

DictHas(d, k) == \E i \in 1..Len(d) : d[i][1] = k

\* d[k] for a key the dict holds
DictAt(d, k) == d[CHOOSE i \in 1..Len(d) : d[i][1] = k][2]

\* d.get(k, default)
DictGet(d, k, default) == IF DictHas(d, k) THEN DictAt(d, k) ELSE default

\* d[k] = v: a key already there keeps its place and takes the new value
DictSet(d, k, v) ==
    IF DictHas(d, k)
    THEN [i \in 1..Len(d) |-> IF d[i][1] = k THEN <<k, v>> ELSE d[i]]
    ELSE Append(d, <<k, v>>)

\* d.values()
DictValues(d) == [i \in 1..Len(d) |-> d[i][2]]

DictKeys(d) == {d[i][1] : i \in 1..Len(d)}

\* a JSON object's r.get(k, default)
RecGet(r, k, default) == IF k \in DOMAIN r THEN r[k] ELSE default

(* json.dumps(obj, indent=...) and json.loads(text) *)
NoIndent == "None"

Indent2 == "2"

dumps(obj, indent) == [text_of |-> obj, indent |-> indent]

loads(text) == text.text_of

----------------------------------------------------------------------------
(* SheetsSession.set_active_sheet *)
set_active_sheet(spreadsheet_id, sheet_name) ==
    [current_spreadsheet_id |-> Some(spreadsheet_id),
     current_sheet_name |-> Some(IF sheet_name # EmptyStr THEN sheet_name ELSE <<"Sheet1">>)]

\* request.execute(): the remote store's answer, or the failure it raises
execute(answer) == IF answer.ok THEN Return(answer.body) ELSE Raise(answer.error)

\* a tool without its except clause: the exception leaves the tool
except_Exception_missing(outcome, prefix) == outcome

\* an except clause that reports the failure under another key
except_Exception_as_message(outcome, prefix) ==
    IF outcome.raised
    THEN Return([text_of |-> [message |-> <<prefix>> \o outcome.value], indent |-> "None"])
    ELSE outcome

\* except Exception as e: return json.dumps({"error": f"<prefix>{str(e)}"})
except_Exception(outcome, prefix) ==
    IF outcome.raised
    THEN Return(dumps([error |-> <<prefix>> \o outcome.value], NoIndent))
    ELSE outcome

\* f"{sheet_name}!{range_name}" if sheet_name else range_name
full_range_of(sheet_name, range_name) ==
    IF sheet_name # EmptyStr THEN sheet_name \o <<"!">> \o range_name ELSE range_name

(* Each remote call is logged with sheets_session as it stands when the request
   is executed: set_active_sheet has run by then (lines 91, 151, 195, 240) *)

(* read_sheet_data, lines 114-116: one record of a data row *)
RECURSIVE row_dict_loop(_, _, _, _)
row_dict_loop(headers, row, i, row_dict) ==
    IF i > Len(headers) THEN row_dict
    ELSE row_dict_loop(headers, row, i + 1,
             DictSet(row_dict, headers[i], IF i <= Len(row) THEN row[i] ELSE EmptyStr))

row_dict_of(headers, row) == row_dict_loop(headers, row, 1, EmptyDict)

\* record building that takes the header row for a data row too
build_records_with_header_row(values) ==
    [headers |-> values[1],
     data |-> [r \in 1..Len(values) |-> row_dict_of(values[1], values[r])]]

(* read_sheet_data, lines 108-117: the records of a grid of two rows or more *)
build_records(values) ==
    LET headers   == values[1]
        data_rows == Tail(values)
    IN  [headers |-> headers,
         data |-> [r \in 1..Len(data_rows) |-> row_dict_of(headers, data_rows[r])]]

read_sheet_data(spreadsheet_id, range_name, sheet_name, get) ==
    LET full_range == full_range_of(sheet_name, range_name)
        response   == execute(get)
        values     == RecGet(response.value, "values", <<>>)
        body ==
            IF response.raised THEN response
            ELSE IF values = <<>>
            THEN Return(dumps([message |-> <<"No data found in the specified range">>], NoIndent))
            ELSE IF Len(values) > 1
            THEN Return(dumps([range |-> full_range,
                               headers |-> build_records(values).headers,
                               data |-> build_records(values).data,
                               row_count |-> Len(Tail(values))], Indent2))
            ELSE Return(dumps([range |-> full_range,
                               raw_data |-> values,
                               row_count |-> Len(values)], Indent2))
    IN  [out |-> except_Exception(body, "Failed to read sheet data: "),
         session |-> set_active_sheet(spreadsheet_id, sheet_name),
         calls |-> <<[op |-> "get", spreadsheetId |-> spreadsheet_id,
                      range |-> full_range, answer |-> get,
                      session |-> set_active_sheet(spreadsheet_id, sheet_name)]>>]

write_sheet_data(spreadsheet_id, range_name, data, sheet_name, update) ==
    LET full_range == full_range_of(sheet_name, range_name)
        response   == execute(update)
        body ==
            IF response.raised THEN response
            ELSE Return(dumps(
                [success |-> TRUE,
                 message |-> <<"Updated ">> \o str(RecGet(response.value, "updatedCells", 0))
                                 \o <<" cells in ">> \o full_range,
                 range |-> full_range,
                 updated_rows |-> RecGet(response.value, "updatedRows", 0),
                 updated_columns |-> RecGet(response.value, "updatedColumns", 0)], Indent2))
    IN  [out |-> except_Exception(body, "Failed to write sheet data: "),
         session |-> set_active_sheet(spreadsheet_id, sheet_name),
         calls |-> <<[op |-> "update", spreadsheetId |-> spreadsheet_id,
                      range |-> full_range, values |-> data, answer |-> update,
                      session |-> set_active_sheet(spreadsheet_id, sheet_name)]>>]

append_sheet_data(spreadsheet_id, data, sheet_name, append) ==
    LET range_name == sheet_name \o <<"!A:Z">>
        response   == execute(append)
        updates    == RecGet(response.value, "updates", [x \in {} |-> 0])
        body ==
            IF response.raised THEN response
            ELSE Return(dumps(
                [success |-> TRUE,
                 message |-> <<"Appended ">> \o str(Len(data)) \o <<" rows to ">> \o sheet_name,
                 updated_range |-> RecGet(updates, "updatedRange", EmptyStr),
                 updated_rows |-> RecGet(updates, "updatedRows", 0),
                 updated_cells |-> RecGet(updates, "updatedCells", 0)], Indent2))
    IN  [out |-> except_Exception(body, "Failed to append sheet data: "),
         session |-> set_active_sheet(spreadsheet_id, sheet_name),
         calls |-> <<[op |-> "append", spreadsheetId |-> spreadsheet_id,
                      range |-> range_name, values |-> data, answer |-> append,
                      session |-> set_active_sheet(spreadsheet_id, sheet_name)]>>]

clear_sheet_range(spreadsheet_id, range_name, sheet_name, clear) ==
    LET full_range == full_range_of(sheet_name, range_name)
        response   == execute(clear)
        body ==
            IF response.raised THEN response
            ELSE Return(dumps(
                [success |-> TRUE,
                 message |-> <<"Cleared range ">> \o full_range,
                 cleared_range |-> RecGet(response.value, "clearedRange", full_range)], Indent2))
    IN  [out |-> except_Exception(body, "Failed to clear sheet range: "),
         session |-> set_active_sheet(spreadsheet_id, sheet_name),
         calls |-> <<[op |-> "clear", spreadsheetId |-> spreadsheet_id,
                      range |-> full_range, answer |-> clear,
                      session |-> set_active_sheet(spreadsheet_id, sheet_name)]>>]

----------------------------------------------------------------------------
(* analyze_sheet_data *)

\* a count of the cells that are not the empty string, blank ones included
RECURSIVE count_non_empty_unstripped(_)
count_non_empty_unstripped(data) ==
    IF data = <<>> THEN 0
    ELSE Len(SelectSeq(DictValues(Head(data)), LAMBDA value : value # EmptyStr))
         + count_non_empty_unstripped(Tail(data))

\* sum(1 for row in data for value in row.values() if str(value).strip())
RECURSIVE count_non_empty(_)
count_non_empty(data) ==
    IF data = <<>> THEN 0
    ELSE Len(SelectSeq(DictValues(Head(data)), LAMBDA value : strip(value) # EmptyStr))
         + count_non_empty(Tail(data))

\* sum(1 for row in data for value in row.values() if not str(value).strip())
RECURSIVE count_empty(_)
count_empty(data) ==
    IF data = <<>> THEN 0
    ELSE Len(SelectSeq(DictValues(Head(data)), LAMBDA value : strip(value) = EmptyStr))
         + count_empty(Tail(data))

\* the sample without its cut at three records
sample_data_of_uncut(data) == data

\* data[:3] if len(data) > 3 else data
sample_data_of(data) == IF Len(data) > 3 THEN SubSeq(data, 1, 3) ELSE data

summary_of(data, headers) ==
    [row_count |-> Len(data),
     column_count |-> Len(headers),
     non_empty_cells |-> count_non_empty(data),
     sample_data |-> sample_data_of(data)]

(* fractions <<numerator, denominator>>, denominator > 0, for the floats *)
FracLess(a, b) == a[1] * b[2] < b[1] * a[2]

FracEq(a, b) == a[1] * b[2] = b[1] * a[2]

FracAdd(a, b) == <<a[1] * b[2] + b[1] * a[2], a[2] * b[2]>>

RECURSIVE sum(_)
sum(values) == IF values = <<>> THEN <<0, 1>> ELSE FracAdd(Head(values), sum(Tail(values)))

min(values) ==
    values[CHOOSE i \in 1..Len(values) : \A j \in 1..Len(values) : ~FracLess(values[j], values[i])]

max(values) ==
    values[CHOOSE i \in 1..Len(values) : \A j \in 1..Len(values) : ~FracLess(values[i], values[j])]

\* str(row[col]).replace('.', '').replace('-', '').isdigit()
is_numeric(value) == isdigit(replace(replace(value, "."), "-"))

\* [float(row[col]) for row in data if is_numeric(row[col])], lines 312-313:
\* the list, or the ValueError of the first value float() rejects
RECURSIVE numeric_values(_, _)
numeric_values(data, col) ==
    IF data = <<>> THEN Return(<<>>)
    ELSE LET value == DictAt(Head(data), col)
             rest  == numeric_values(Tail(data), col)
         IN  IF ~is_numeric(value) THEN rest
             ELSE IF float(value).raised THEN float(value)
             ELSE IF rest.raised THEN rest
             ELSE Return(<<float(value).value>> \o rest.value)

\* lines 311-322: the loop over the headers, from header i on
RECURSIVE numeric_analysis_loop(_, _, _, _)
numeric_analysis_loop(data, headers, i, numeric_analysis) ==
    IF i > Len(headers) THEN numeric_analysis
    ELSE LET col    == headers[i]
             values == numeric_values(data, col)
         IN  numeric_analysis_loop(data, headers, i + 1,
                 IF values.raised THEN numeric_analysis          \* except: continue
                 ELSE IF values.value = <<>> THEN numeric_analysis
                 ELSE DictSet(numeric_analysis, col,
                          [count |-> Len(values.value),
                           mean |-> <<sum(values.value)[1], sum(values.value)[2] * Len(values.value)>>,
                           min |-> min(values.value),
                           max |-> max(values.value)]))

numeric_statistics_of(data, headers) == numeric_analysis_loop(data, headers, 1, EmptyDict)

\* [str(row[col]).strip() for row in data if str(row[col]).strip()], line 337
RECURSIVE stripped_values(_, _)
stripped_values(data, col) ==
    IF data = <<>> THEN <<>>
    ELSE LET value == strip(DictAt(Head(data), col))
         IN  (IF value # EmptyStr THEN <<value>> ELSE <<>>) \o stripped_values(Tail(data), col)

\* lines 339-341: value_counts[value] = value_counts.get(value, 0) + 1
RECURSIVE value_counts_loop(_, _)
value_counts_loop(values, value_counts) ==
    IF values = <<>> THEN value_counts
    ELSE value_counts_loop(Tail(values),
             DictSet(value_counts, Head(values), DictGet(value_counts, Head(values), 0) + 1))

\* a sort that puts an item before the items of equal count: ties come out in
\* the reverse of the order the values were met
insert_by_count_unstable(sorted_items, item) ==
    LET k == Cardinality({i \in 1..Len(sorted_items) : sorted_items[i][2] > item[2]})
    IN  SubSeq(sorted_items, 1, k) \o <<item>> \o SubSeq(sorted_items, k + 1, Len(sorted_items))

\* one step of the stable sort: the item goes after every item whose count is
\* not smaller than its own
insert_by_count(sorted_items, item) ==
    LET k == Cardinality({i \in 1..Len(sorted_items) : sorted_items[i][2] >= item[2]})
    IN  SubSeq(sorted_items, 1, k) \o <<item>> \o SubSeq(sorted_items, k + 1, Len(sorted_items))

\* sorted(items, key=lambda x: x[1], reverse=True): descending, stable
RECURSIVE sorted_loop(_, _)
sorted_loop(items, sorted_items) ==
    IF items = <<>> THEN sorted_items
    ELSE sorted_loop(Tail(items), insert_by_count(sorted_items, Head(items)))

sorted_reverse(items) == sorted_loop(items, <<>>)

\* items[:3]
first3(items) == IF Len(items) > 3 THEN SubSeq(items, 1, 3) ELSE items

\* a loop that records a list for every header, an empty one included
RECURSIVE most_common_loop_unguarded(_, _, _, _)
most_common_loop_unguarded(data, headers, i, most_common_values) ==
    IF i > Len(headers) THEN most_common_values
    ELSE most_common_loop_unguarded(data, headers, i + 1,
             DictSet(most_common_values, headers[i],
                 first3(sorted_reverse(value_counts_loop(stripped_values(data, headers[i]), EmptyDict)))))

\* lines 336-344: the loop over the headers, from header i on
RECURSIVE most_common_loop(_, _, _, _)
most_common_loop(data, headers, i, most_common_values) ==
    IF i > Len(headers) THEN most_common_values
    ELSE LET col    == headers[i]
             values == stripped_values(data, col)
         IN  most_common_loop(data, headers, i + 1,
                 IF values # <<>>
                 THEN DictSet(most_common_values, col,
                          first3(sorted_reverse(value_counts_loop(values, EmptyDict))))
                 ELSE most_common_values)

trends_of(data, headers) ==
    [most_common_values |-> most_common_loop(data, headers, 1, EmptyDict),
     data_quality |-> [empty_cells |-> count_empty(data),
                       total_cells |-> Len(data) * Len(headers)]]

\* lines 291-346: the analysis of the records read
analysis_result_of(data, headers, analysis_type, sheet_name, range_name) ==
    LET generic == [analysis_type |-> analysis_type,
                    range |-> sheet_name \o <<"!">> \o range_name,
                    total_rows |-> Len(data),
                    total_columns |-> Len(headers),
                    columns |-> headers]
    IN  IF analysis_type = <<"summary">>
        THEN generic @@ [summary |-> summary_of(data, headers)]
        ELSE IF analysis_type = <<"statistics">>
        THEN generic @@ [numeric_statistics |-> numeric_statistics_of(data, headers)]
        ELSE IF analysis_type = <<"trends">>
        THEN generic @@ [trends |-> trends_of(data, headers)]
        ELSE generic

\* an analysis that hands back what it read when the read has no records
analyze_data_result_unchecked(data_result, data_json, range_name, analysis_type, sheet_name) ==
    IF "data" \notin DOMAIN data_json THEN Return(data_result)
    ELSE Return(dumps(analysis_result_of(data_json.data, data_json.headers,
                                         analysis_type, sheet_name, range_name), Indent2))

\* lines 277-346, given the text read_sheet_data returned
analyze_data_result(data_result, data_json, range_name, analysis_type, sheet_name) ==
    IF "error" \in DOMAIN data_json THEN Return(data_result)
    ELSE IF "data" \notin DOMAIN data_json
    THEN Return(dumps([error |-> <<"No structured data available for analysis">>], NoIndent))
    ELSE Return(dumps(analysis_result_of(data_json.data, data_json.headers,
                                         analysis_type, sheet_name, range_name), Indent2))

\* lines 274-349, given the run of read_sheet_data of line 276
analyze_read(read, range_name, analysis_type, sheet_name) ==
    [out |-> except_Exception(
                 IF read.out.raised THEN read.out
                 ELSE analyze_data_result(read.out.value, loads(read.out.value),
                                          range_name, analysis_type, sheet_name),
                 "Failed to analyze sheet data: "),
     session |-> read.session,
     calls |-> read.calls]

analyze_sheet_data(spreadsheet_id, range_name, analysis_type, sheet_name, get) ==
    analyze_read(read_sheet_data(spreadsheet_id, range_name, sheet_name, get),
                 range_name, analysis_type, sheet_name)

(* the remote store's answer to values().update() *)
RECURSIVE CellCount(_)
CellCount(data) == IF data = <<>> THEN 0 ELSE Len(Head(data)) + CellCount(Tail(data))

Width(data) ==
    IF data = <<>> THEN 0
    ELSE Len(data[CHOOSE i \in 1..Len(data) : \A j \in 1..Len(data) : Len(data[j]) <= Len(data[i])])

\* values().update(): the remote store fails, or answers without or with the counts
UpdateBehaviours == {"fails", "bare", "counts"}

UpdateAnswer(behaviour, spreadsheet_id, data) ==
    IF behaviour = "fails" THEN [ok |-> FALSE, error |-> <<"HttpError 403">>]
    ELSE IF behaviour = "bare" THEN [ok |-> TRUE, body |-> [spreadsheetId |-> spreadsheet_id]]
    ELSE [ok |-> TRUE, body |-> [spreadsheetId |-> spreadsheet_id,
                                 updatedCells |-> CellCount(data),
                                 updatedRows |-> Len(data),
                                 updatedColumns |-> Width(data)]]

----------------------------------------------------------------------------
(* create_summary_report *)

\* lines 388-389: one numbered row per column name
column_rows(columns) == [i \in 1..Len(columns) |-> <<str(i) \o <<".">>, columns[i]>>]

\* a sample row made of the record's values, one per key, not one per header
sample_row_of_values(row_data, headers) == DictValues(row_data)

\* line 404: [str(row_data.get(col, "")) for col in headers]
sample_row(row_data, headers) ==
    [j \in 1..Len(headers) |-> DictGet(row_data, headers[j], EmptyStr)]

\* lines 397-405: the header row and one row per sample record
sample_rows(analysis_data) ==
    LET sample_data == analysis_data.summary.sample_data
        headers     == analysis_data.columns
    IN  IF sample_data # <<>>
        THEN <<headers>> \o [r \in 1..Len(sample_data) |-> sample_row(sample_data[r], headers)]
        ELSE <<>>

\* lines 374-405
report_data_of(analysis_data, report_title, sheet_name, source_range, now) ==
    << <<report_title>>,
       <<<<"Generated on:">>, now>>,
       <<<<"Source Range:">>, sheet_name \o <<"!">> \o source_range>>,
       <<EmptyStr>>,
       <<<<"Summary Statistics:">>>>,
       <<<<"Total Rows:">>, str(analysis_data.summary.row_count)>>,
       <<<<"Total Columns:">>, str(analysis_data.summary.column_count)>>,
       <<<<"Non-empty Cells:">>, str(analysis_data.summary.non_empty_cells)>>,
       <<EmptyStr>>,
       <<<<"Column Names:">>>> >>
    \o column_rows(analysis_data.columns)
    \o << <<EmptyStr>>, <<<<"Sample Data (first 3 rows):">>>> >>
    \o sample_rows(analysis_data)

\* a report that issues the write a second time when it failed
report_written_retrying(analysis, analysis_data, report_data, report_range, write, report_title, sheet_name) ==
    [out |-> IF RecGet(loads(write.out.value), "success", FALSE)
             THEN Return(dumps(
                 [success |-> TRUE,
                  message |-> <<"Created summary report '">> \o report_title
                                  \o <<"' in range ">> \o sheet_name \o <<"!">> \o report_range,
                  report_location |-> sheet_name \o <<"!">> \o report_range,
                  report_rows |-> Len(report_data),
                  source_data_summary |-> analysis_data.summary], Indent2))
             ELSE Return(write.out.value),
     session |-> write.session,
     calls |-> IF RecGet(loads(write.out.value), "success", FALSE)
               THEN analysis.calls \o write.calls
               ELSE analysis.calls \o write.calls \o write.calls]

\* lines 412-423, given the run of write_sheet_data of line 411
report_written(analysis, analysis_data, report_data, report_range, write, report_title, sheet_name) ==
    [out |-> except_Exception(
                 IF write.out.raised THEN write.out
                 ELSE IF RecGet(loads(write.out.value), "success", FALSE)
                 THEN Return(dumps(
                     [success |-> TRUE,
                      message |-> <<"Created summary report '">> \o report_title
                                      \o <<"' in range ">> \o sheet_name \o <<"!">> \o report_range,
                      report_location |-> sheet_name \o <<"!">> \o report_range,
                      report_rows |-> Len(report_data),
                      source_data_summary |-> analysis_data.summary], Indent2))
                 ELSE Return(write.out.value),
                 "Failed to create summary report: "),
     session |-> write.session,
     calls |-> analysis.calls \o write.calls]

\* lines 407-411, given the rows of the report
report_write(analysis, analysis_data, report_data, report_range, spreadsheet_id, report_title, sheet_name, update) ==
    report_written(analysis, analysis_data, report_data, report_range,
                   write_sheet_data(spreadsheet_id, report_range, report_data, sheet_name,
                                    UpdateAnswer(update, spreadsheet_id, report_data)),
                   report_title, sheet_name)

\* lines 373-408, given the analysis without error
report_compose(analysis, analysis_data, report_data, spreadsheet_id, report_title, sheet_name, update) ==
    report_write(analysis, analysis_data, report_data, <<"H1:K">> \o str(Len(report_data)),
                 spreadsheet_id, report_title, sheet_name, update)

\* lines 365-426, given the run of analyze_sheet_data of line 367
report_of_analysis(analysis, analysis_data, spreadsheet_id, source_range, report_title, sheet_name, now, update) ==
    IF analysis.out.raised \/ "error" \in DOMAIN analysis_data
    THEN [out |-> except_Exception(analysis.out, "Failed to create summary report: "),
          session |-> analysis.session,
          calls |-> analysis.calls]
    ELSE report_compose(analysis, analysis_data,
                        report_data_of(analysis_data, report_title, sheet_name, source_range, now),
                        spreadsheet_id, report_title, sheet_name, update)

report_analysed(analysis, spreadsheet_id, source_range, report_title, sheet_name, now, update) ==
    report_of_analysis(analysis,
                       IF analysis.out.raised THEN [error |-> analysis.out.value]
                       ELSE loads(analysis.out.value),
                       spreadsheet_id, source_range, report_title, sheet_name, now, update)

create_summary_report(spreadsheet_id, source_range, report_title, sheet_name, now, get, update) ==
    report_analysed(analyze_sheet_data(spreadsheet_id, source_range, <<"summary">>, sheet_name, get),
                    spreadsheet_id, source_range, report_title, sheet_name, now, update)

----------------------------------------------------------------------------
(* What the agent passes to the tools and what the remote store answers *)

MaxDataRows == 4

MaxStatRows == 3

MaxTrendRows == 5

SeqsUpTo(S, n) == UNION {[1..k -> S] : k \in 0..n}

\* the empty grid, and every header row followed by at most n rows of Rows
GridsOf(HeaderRows, Rows, n) ==
    {<<>>} \cup {<<h>> \o d : h \in HeaderRows, d \in SeqsUpTo(Rows, n)}

Grids ==
    GridsOf({<<>>, << <<"A">> >>, << <<"A">>, <<"B">> >>, << <<"A">>, <<"A">> >>},
            {<<>>, << <<"x">> >>, << <<" ">>, <<" ", "y">> >>, << <<"x">>, <<>>, <<"z">> >>},
            MaxDataRows)

StatGrids ==
    GridsOf({<< <<"N">> >>, << <<"N">>, <<"M">> >>},
            {<<>>, << <<"1">> >>, << <<"3", ".", "5">> >>, << <<"-", "2">>, <<"x">> >>,
             << <<"1", ".", "2", ".", "3">> >>, << <<"1", "-", "2">>, <<"7">> >>},
            MaxStatRows)

TrendGrids ==
    GridsOf({<< <<"A">>, <<"B">> >>},
            {<< <<"a">> >>, << <<"b">> >>, << <<"c">> >>, << <<"d">> >>,
             << <<" ", "a">>, <<"z">> >>, << <<" ">> >>},
            MaxTrendRows)

Target(spreadsheet_id, sheet_name, range_name) ==
    [spreadsheet_id |-> spreadsheet_id, sheet_name |-> sheet_name, range_name |-> range_name]

Targets ==
    {Target(i, s, <<"A1:C5">>) : i \in {<<"sheet-1">>, <<"sheet-2">>}, s \in {EmptyStr, <<"Data">>}}

OneTarget == {Target(<<"sheet-1">>, <<"Data">>, <<"A1:C5">>)}

AnalysisTypes == {<<"summary">>, <<"statistics">>, <<"trends">>, <<"pivot">>}

WriteData == {<<>>, << << <<"k">>, <<"v">> >>, << <<"w">> >> >>}

ReportTitles == {<<"Data Summary">>}

Timestamps == {<<"2024-01-15 10:30:00">>}

Failures == {[ok |-> FALSE, error |-> <<"HttpError 403">>]}

\* values().get(): a range without data has no 'values' in the answer
GetAnswers(G) ==
    Failures \cup {[ok |-> TRUE,
                    body |-> IF g = <<>> THEN [majorDimension |-> "ROWS"]
                             ELSE [majorDimension |-> "ROWS", values |-> g]] : g \in G}

\* values().append()
AppendAnswers(spreadsheet_id, data) ==
    Failures \cup {[ok |-> TRUE, body |-> [spreadsheetId |-> spreadsheet_id]],
                   [ok |-> TRUE, body |-> [spreadsheetId |-> spreadsheet_id,
                                           updates |-> [updatedRange |-> <<"A6:B7">>,
                                                        updatedRows |-> Len(data),
                                                        updatedCells |-> CellCount(data)]]]}

\* values().clear()
ClearAnswers(spreadsheet_id, full_range) ==
    Failures \cup {[ok |-> TRUE, body |-> [spreadsheetId |-> spreadsheet_id]],
                   [ok |-> TRUE, body |-> [spreadsheetId |-> spreadsheet_id,
                                           clearedRange |-> full_range]]}

----------------------------------------------------------------------------
(* The agent runs one tool at a time and takes its result *)

NoInvocation == [tool |-> "none"]

NoResult == Return(None)

Init ==
    /\ current_spreadsheet_id = None
    /\ current_sheet_name = None
    /\ pc = "idle"
    /\ invocation = NoInvocation
    /\ remote_calls = <<>>
    /\ result = NoResult

\* a tool that records the sheet only once its remote calls have answered
ToolReturns_recording_after_call(inv, run) ==
    /\ pc' = "returned"
    /\ invocation' = inv
    /\ result' = run.out
    /\ remote_calls' = run.calls
    /\ IF \E c \in 1..Len(run.calls) : ~run.calls[c].answer.ok
       THEN UNCHANGED <<current_spreadsheet_id, current_sheet_name>>
       ELSE /\ current_spreadsheet_id' = run.session.current_spreadsheet_id
            /\ current_sheet_name' = run.session.current_sheet_name

\* the return of a tool (or the exception leaving it) and what its run did
ToolReturns(inv, run) ==
    /\ pc' = "returned"
    /\ invocation' = inv
    /\ result' = run.out
    /\ remote_calls' = run.calls
    /\ current_spreadsheet_id' = run.session.current_spreadsheet_id
    /\ current_sheet_name' = run.session.current_sheet_name

ReadSheetData(T, G) ==
    /\ pc = "idle"
    /\ \E t \in T, get \in GetAnswers(G) :
        ToolReturns([tool |-> "read_sheet_data", target |-> t],
                 read_sheet_data(t.spreadsheet_id, t.range_name, t.sheet_name, get))

WriteSheetData(T) ==
    /\ pc = "idle"
    /\ \E t \in T, data \in WriteData :
        \E update \in UpdateBehaviours :
            ToolReturns([tool |-> "write_sheet_data", target |-> t, data |-> data],
                     write_sheet_data(t.spreadsheet_id, t.range_name, data, t.sheet_name,
                                      UpdateAnswer(update, t.spreadsheet_id, data)))

AppendSheetData(T) ==
    /\ pc = "idle"
    /\ \E t \in T, data \in WriteData :
        \E append \in AppendAnswers(t.spreadsheet_id, data) :
            ToolReturns([tool |-> "append_sheet_data", target |-> t, data |-> data],
                     append_sheet_data(t.spreadsheet_id, data, t.sheet_name, append))

ClearSheetRange(T) ==
    /\ pc = "idle"
    /\ \E t \in T :
        \E clear \in ClearAnswers(t.spreadsheet_id, full_range_of(t.sheet_name, t.range_name)) :
            ToolReturns([tool |-> "clear_sheet_range", target |-> t],
                     clear_sheet_range(t.spreadsheet_id, t.range_name, t.sheet_name, clear))

AnalyzeSheetData(T, G, K) ==
    /\ pc = "idle"
    /\ \E t \in T, analysis_type \in K, get \in GetAnswers(G) :
        ToolReturns([tool |-> "analyze_sheet_data", target |-> t, analysis_type |-> analysis_type],
                 analyze_sheet_data(t.spreadsheet_id, t.range_name, analysis_type, t.sheet_name, get))

CreateSummaryReport(T, G) ==
    /\ pc = "idle"
    /\ \E t \in T, report_title \in ReportTitles, now \in Timestamps, get \in GetAnswers(G) :
        \E update \in UpdateBehaviours :
            ToolReturns([tool |-> "create_summary_report", target |-> t,
                      report_title |-> report_title, now |-> now],
                     create_summary_report(t.spreadsheet_id, t.range_name, report_title,
                                           t.sheet_name, now, get, update))

\* Runner.run hands the tool's output back to the agent
Deliver ==
    /\ pc = "returned"
    /\ pc' = "idle"
    /\ invocation' = NoInvocation
    /\ result' = NoResult
    /\ remote_calls' = <<>>
    /\ UNCHANGED <<current_spreadsheet_id, current_sheet_name>>

Next ==
    \/ ReadSheetData(Targets, Grids)
    \/ WriteSheetData(Targets)
    \/ AppendSheetData(Targets)
    \/ ClearSheetRange(Targets)
    \/ AnalyzeSheetData(Targets, Grids, AnalysisTypes)
    \/ CreateSummaryReport(Targets, Grids)
    \/ Deliver

Spec == Init /\ [][Next]_vars

NextStats ==
    \/ AnalyzeSheetData(OneTarget, StatGrids, {<<"statistics">>})
    \/ Deliver

SpecStats == Init /\ [][NextStats]_vars

NextTrends ==
    \/ AnalyzeSheetData(OneTarget, TrendGrids, {<<"trends">>})
    \/ Deliver

SpecTrends == Init /\ [][NextTrends]_vars

----------------------------------------------------------------------------
(* Vocabulary of the properties: what the last invocation was given and gave *)

Returned == pc = "returned"

Tool == invocation.tool

\* the object of the JSON text the tool returned
Payload == loads(result.value)

HasSuccess == RecGet(Payload, "success", FALSE) = TRUE

HasError == "error" \in DOMAIN Payload

SomeCallFailed == \E c \in 1..Len(remote_calls) : ~remote_calls[c].answer.ok

\* the remote read answered, with this grid
GetOk == remote_calls # <<>> /\ remote_calls[1].op = "get" /\ remote_calls[1].answer.ok

SheetValues == RecGet(remote_calls[1].answer.body, "values", <<>>)

ReadGrid == GetOk /\ Len(SheetValues) >= 2

SheetHeaders == SheetValues[1]

HeaderNames == {SheetHeaders[j] : j \in 1..Len(SheetHeaders)}

\* the cell of sheet row r at header position j, empty when the row is shorter
Cell(r, j) == IF j <= Len(SheetValues[r]) THEN SheetValues[r][j] ELSE EmptyStr

LastPosition(h) ==
    CHOOSE j \in 1..Len(SheetHeaders) :
        SheetHeaders[j] = h /\ \A k \in (j + 1)..Len(SheetHeaders) : SheetHeaders[k] # h

NoRepeatedHeader ==
    \A j, k \in 1..Len(SheetHeaders) : SheetHeaders[j] = SheetHeaders[k] => j = k

NumberOfKeys(record) == Cardinality(DictKeys(record))

----------------------------------------------------------------------------
\* C1 as stated: for every grid of two rows or more, ragged rows and any header
\* list allowed, read_sheet_data builds |grid|-1 records in sheet row order, each
\* with exactly |headers| keys, and record[i][headers[j]] is grid[i+1][j] when
\* that cell exists and the empty string otherwise.
C1_RecordsAnyHeaders ==
    (Returned /\ Tool = "read_sheet_data" /\ ReadGrid) =>
        /\ ~result.raised
        /\ "data" \in DOMAIN Payload
        /\ Len(Payload.data) = Len(SheetValues) - 1
        /\ \A i \in 1..Len(Payload.data) :
              /\ NumberOfKeys(Payload.data[i]) = Len(SheetHeaders)
              /\ \A j \in 1..Len(SheetHeaders) :
                    /\ DictHas(Payload.data[i], SheetHeaders[j])
                    /\ DictAt(Payload.data[i], SheetHeaders[j]) = Cell(i + 1, j)

\* C1 amended: for every grid of two rows or more, read_sheet_data builds
\* |grid|-1 records in sheet row order; the keys of each record are the distinct
\* header names, one item per name, and record[i][h] is the cell of row i+1 at
\* the last header position named h when that cell exists and the empty string
\* otherwise; cells beyond the header count are dropped.  With no repeated
\* header name this is |headers| keys and record[i][headers[j]] = grid[i+1][j].
C1_Records ==
    (Returned /\ Tool = "read_sheet_data" /\ ReadGrid) =>
        /\ ~result.raised
        /\ "data" \in DOMAIN Payload
        /\ Payload.headers = SheetHeaders
        /\ Len(Payload.data) = Len(SheetValues) - 1
        /\ \A i \in 1..Len(Payload.data) :
              /\ DictKeys(Payload.data[i]) = HeaderNames
              /\ Len(Payload.data[i]) = Cardinality(HeaderNames)
              /\ \A h \in HeaderNames :
                    DictAt(Payload.data[i], h) = Cell(i + 1, LastPosition(h))
              /\ NoRepeatedHeader =>
                    /\ NumberOfKeys(Payload.data[i]) = Len(SheetHeaders)
                    /\ \A j \in 1..Len(SheetHeaders) :
                          DictAt(Payload.data[i], SheetHeaders[j]) = Cell(i + 1, j)

\* a read of a grid with a repeated header name, a row shorter than the header
\* row and a row longer than it
C1_Witness ==
    /\ Returned /\ Tool = "read_sheet_data" /\ ReadGrid
    /\ ~NoRepeatedHeader
    /\ \E r \in 2..Len(SheetValues) : Len(SheetValues[r]) < Len(SheetHeaders)
    /\ \E r \in 2..Len(SheetValues) : Len(SheetValues[r]) > Len(SheetHeaders)
    /\ "data" \in DOMAIN Payload

\* C2: whatever the remote calls of a tool do, no exception leaves the tool, and
\* when a remote call failed the tool returns a payload with an `error` field
\* and without `success: true`.
C2_RemoteFailureIsErrorPayload ==
    Returned =>
        /\ ~result.raised
        /\ SomeCallFailed => (HasError /\ ~HasSuccess)

\* every tool has met a failing remote call: the report's write failed after a
\* read that answered
C2_Witness ==
    /\ Returned /\ Tool = "create_summary_report"
    /\ Len(remote_calls) = 2
    /\ remote_calls[1].answer.ok /\ ~remote_calls[2].answer.ok
    /\ HasError

\* C3 as stated: every response carries `success: true` or an `error` field,
\* never neither, and a response to an operation that succeeded carries
\* `success: true`.
C3_SuccessOrError ==
    Returned =>
        /\ ~result.raised
        /\ HasSuccess \/ HasError
        /\ (~SomeCallFailed /\ (Tool \in {"analyze_sheet_data", "create_summary_report"} => ReadGrid))
              => HasSuccess

WritingTools == {"write_sheet_data", "append_sheet_data", "clear_sheet_range", "create_summary_report"}

GenericAnalysisFields == {"analysis_type", "range", "total_rows", "total_columns", "columns"}

\* C3 amended: write_sheet_data, append_sheet_data, clear_sheet_range and
\* create_summary_report return `success: true` with their operation-specific
\* fields when the operation succeeds, and each of their responses carries
\* `success: true` or an `error` field, never both and never neither.  A
\* read_sheet_data or analyze_sheet_data response never carries a `success`
\* flag: when the operation succeeds it carries its operation-specific fields
\* only, neither `success` nor `error`.
C3_SuccessFlag ==
    Returned =>
        /\ ~result.raised
        /\ ~(HasSuccess /\ HasError)
        /\ Tool \in WritingTools => (HasSuccess \/ HasError)
        /\ Tool \in {"read_sheet_data", "analyze_sheet_data"} => "success" \notin DOMAIN Payload
        /\ ~SomeCallFailed =>
              /\ Tool = "write_sheet_data" =>
                    DOMAIN Payload = {"success", "message", "range", "updated_rows", "updated_columns"}
              /\ Tool = "append_sheet_data" =>
                    DOMAIN Payload = {"success", "message", "updated_range", "updated_rows", "updated_cells"}
              /\ Tool = "clear_sheet_range" =>
                    DOMAIN Payload = {"success", "message", "cleared_range"}
              /\ (Tool = "create_summary_report" /\ ReadGrid) =>
                    DOMAIN Payload = {"success", "message", "report_location", "report_rows",
                                      "source_data_summary"}
              /\ Tool \in WritingTools /\ (Tool = "create_summary_report" => ReadGrid) => HasSuccess
              /\ Tool = "read_sheet_data" =>
                    DOMAIN Payload = IF SheetValues = <<>> THEN {"message"}
                                     ELSE IF Len(SheetValues) > 1
                                     THEN {"range", "headers", "data", "row_count"}
                                     ELSE {"range", "raw_data", "row_count"}
              /\ (Tool = "analyze_sheet_data" /\ ReadGrid) =>
                    DOMAIN Payload =
                        GenericAnalysisFields \cup
                        (IF invocation.analysis_type = <<"summary">> THEN {"summary"}
                         ELSE IF invocation.analysis_type = <<"statistics">> THEN {"numeric_statistics"}
                         ELSE IF invocation.analysis_type = <<"trends">> THEN {"trends"}
                         ELSE {})

\* an analysis that succeeded and carries neither flag
C3_Witness ==
    /\ Returned /\ Tool = "analyze_sheet_data" /\ ReadGrid
    /\ ~result.raised
    /\ ~HasSuccess /\ ~HasError

NoStructuredData == <<"No structured data available for analysis">>

\* C4: when the remote read answers with an empty grid or a grid of one row,
\* analyze_sheet_data returns an `error` payload whatever the analysis kind and
\* does not raise; that payload differs from the one of a failed remote read;
\* create_summary_report over the same range returns it unchanged.
C4_NoStructuredDataIsError ==
    (Returned /\ Tool \in {"analyze_sheet_data", "create_summary_report"}) =>
        /\ ~result.raised
        /\ (GetOk /\ Len(SheetValues) <= 1) =>
              /\ result.value = dumps([error |-> NoStructuredData], NoIndent)
              /\ \A f \in Failures :
                    Payload.error # <<"Failed to read sheet data: ">> \o f.error
        /\ ~GetOk =>
              /\ DOMAIN Payload = {"error"}
              /\ Payload.error = <<"Failed to read sheet data: ">> \o remote_calls[1].answer.error
              /\ Payload.error # NoStructuredData

\* the report asked over a range that holds one row only
C4_Witness ==
    /\ Returned /\ Tool = "create_summary_report"
    /\ GetOk /\ Len(SheetValues) = 1
    /\ HasError

\* C5: create_summary_report reads once and then, only if the analysis gave no
\* error, writes once; on an analysis error it writes nothing and returns the
\* analysis payload unchanged; a failed write is not retried and its failure
\* payload is returned unchanged.  Every other tool makes at most one remote call.
C5_RemoteCallOrder ==
    Returned =>
        /\ Tool # "create_summary_report" => Len(remote_calls) <= 1
        /\ Tool = "create_summary_report" =>
              /\ Len(remote_calls) \in {1, 2}
              /\ remote_calls[1].op = "get"
              /\ Len(remote_calls) = 2 <=> ReadGrid
              /\ Len(remote_calls) = 2 => remote_calls[2].op = "update"
              /\ ~result.raised
              /\ ~GetOk =>
                    result.value = dumps([error |-> <<"Failed to read sheet data: ">>
                                                    \o remote_calls[1].answer.error], NoIndent)
              /\ (GetOk /\ Len(SheetValues) <= 1) =>
                    result.value = dumps([error |-> NoStructuredData], NoIndent)
              /\ (Len(remote_calls) = 2 /\ ~remote_calls[2].answer.ok) =>
                    result.value = dumps([error |-> <<"Failed to write sheet data: ">>
                                                    \o remote_calls[2].answer.error], NoIndent)

\* a report whose write failed
C5_Witness ==
    /\ Returned /\ Tool = "create_summary_report"
    /\ Len(remote_calls) = 2
    /\ remote_calls[2].op = "update" /\ ~remote_calls[2].answer.ok

SummaryOfGrid == Returned /\ Tool = "analyze_sheet_data" /\ invocation.analysis_type = <<"summary">> /\ ReadGrid

\* C6 as stated: for the summary of any grid of two rows or more and any header
\* list, non_empty_cells is the number of (record, header position) pairs whose
\* value is not empty after trimming, row_count the number of records and
\* column_count the number of headers.
C6_NonEmptyCellsPerPosition ==
    SummaryOfGrid =>
        /\ ~result.raised
        /\ "summary" \in DOMAIN Payload
        /\ Payload.summary.row_count = Len(SheetValues) - 1
        /\ Payload.summary.column_count = Len(SheetHeaders)
        /\ Payload.summary.non_empty_cells =
              Cardinality({p \in (2..Len(SheetValues)) \X (1..Len(SheetHeaders)) :
                              strip(Cell(p[1], LastPosition(SheetHeaders[p[2]]))) # EmptyStr})

\* C6 amended: for the summary of any grid of two rows or more, non_empty_cells
\* is the number of (record, distinct header name) pairs whose value is not
\* empty after trimming (a repeated header name counts once per record, with
\* the value of its last position); row_count is the number of records and
\* column_count the number of headers, repeated names included.
C6_NonEmptyCells ==
    SummaryOfGrid =>
        /\ ~result.raised
        /\ "summary" \in DOMAIN Payload
        /\ Payload.summary.row_count = Len(SheetValues) - 1
        /\ Payload.summary.column_count = Len(SheetHeaders)
        /\ Payload.summary.non_empty_cells =
              Cardinality({p \in (2..Len(SheetValues)) \X HeaderNames :
                              strip(Cell(p[1], LastPosition(p[2]))) # EmptyStr})

\* a summary over a grid with a blank cell, a padded cell and a counted cell
C6_Witness ==
    /\ SummaryOfGrid
    /\ \E r \in 2..Len(SheetValues), j \in 1..Len(SheetHeaders) :
          j <= Len(SheetValues[r]) /\ SheetValues[r][j] # EmptyStr /\ strip(SheetValues[r][j]) = EmptyStr
    /\ \E r \in 2..Len(SheetValues) : Len(SheetValues[r]) < Len(SheetHeaders)
    /\ Payload.summary.non_empty_cells > 0

\* the rows of the report written, and where its sample section starts
ReportData == remote_calls[2].values

SampleHeaderRow == 10 + Len(SheetHeaders) + 3

SampleRows == SubSeq(ReportData, SampleHeaderRow + 1, Len(ReportData))

\* C10: for every source grid of two rows or more, the sample rows of the
\* report, fed back through the record building under the header row, give the
\* sample records of the summary again, string for string.
C10_SampleRoundTrip ==
    (Returned /\ Tool = "create_summary_report" /\ Len(remote_calls) = 2) =>
        /\ ReadGrid
        /\ ReportData[SampleHeaderRow] = SheetHeaders
        /\ Len(SampleRows) = (IF Len(SheetValues) - 1 > 3 THEN 3 ELSE Len(SheetValues) - 1)
        /\ build_records(<<SheetHeaders>> \o SampleRows).data
              = sample_data_of(build_records(SheetValues).data)
        /\ HasSuccess =>
              build_records(<<SheetHeaders>> \o SampleRows).data
                  = Payload.source_data_summary.sample_data

\* a report over more than three records, with a repeated header name and a
\* padded row among the samples
C10_Witness ==
    /\ Returned /\ Tool = "create_summary_report" /\ Len(remote_calls) = 2
    /\ HasSuccess
    /\ Len(SheetValues) > 4
    /\ ~NoRepeatedHeader
    /\ \E r \in 2..4 : Len(SheetValues[r]) < Len(SheetHeaders)
    /\ \E r \in 2..4 : \E j \in 1..Len(SheetValues[r]) : SheetValues[r][j] # EmptyStr

----------------------------------------------------------------------------
(* The column named h, as the records hold it: the cells at the last header
   position of that name, row by row *)

DataRowNumbers == [r \in 1..(Len(SheetValues) - 1) |-> r + 1]

ColumnCell(r, h) == Cell(r, LastPosition(h))

Range(seq) == {seq[k] : k \in 1..Len(seq)}

StatisticsOfGrid ==
    Returned /\ Tool = "analyze_sheet_data" /\ invocation.analysis_type = <<"statistics">> /\ ReadGrid

NumericStatistics == Payload.numeric_statistics

\* eligible: only digits are left once every '.' and '-' is removed
Eligible(value) == is_numeric(value)

Parses(value) == ~float(value).raised

\* the numbers of the eligible values of column h that parse, in row order
ParsedValues(h) ==
    LET rows == SelectSeq(DataRowNumbers,
                          LAMBDA r : Eligible(ColumnCell(r, h)) /\ Parses(ColumnCell(r, h)))
    IN  [k \in 1..Len(rows) |-> float(ColumnCell(rows[k], h)).value]

\* C7: in the statistics analysis an eligible value that does not parse is
\* left out on its own: the other eligible values of its column still give the
\* column's count, mean, min and max, and the analysis as a whole does not fail.
C7_ParseSkipPerValue ==
    StatisticsOfGrid =>
        /\ ~result.raised
        /\ "numeric_statistics" \in DOMAIN Payload
        /\ \A h \in HeaderNames :
              ParsedValues(h) # <<>> =>
                  /\ DictHas(NumericStatistics, h)
                  /\ DictAt(NumericStatistics, h).count = Len(ParsedValues(h))
                  /\ FracEq(DictAt(NumericStatistics, h).mean,
                            <<sum(ParsedValues(h))[1], sum(ParsedValues(h))[2] * Len(ParsedValues(h))>>)
                  /\ FracEq(DictAt(NumericStatistics, h).min, min(ParsedValues(h)))
                  /\ FracEq(DictAt(NumericStatistics, h).max, max(ParsedValues(h)))

TrendsOfGrid ==
    Returned /\ Tool = "analyze_sheet_data" /\ invocation.analysis_type = <<"trends">> /\ ReadGrid

MostCommonValues == Payload.trends.most_common_values

\* the values of column h that are not empty after trimming, trimmed, in row order
ColumnValues(h) ==
    LET rows == SelectSeq(DataRowNumbers, LAMBDA r : strip(ColumnCell(r, h)) # EmptyStr)
    IN  [k \in 1..Len(rows) |-> strip(ColumnCell(rows[k], h))]

Frequency(h, v) == Cardinality({k \in 1..Len(ColumnValues(h)) : ColumnValues(h)[k] = v})

FirstSeen(h, v) ==
    CHOOSE k \in 1..Len(ColumnValues(h)) :
        ColumnValues(h)[k] = v /\ \A m \in 1..(k - 1) : ColumnValues(h)[m] # v

\* C8 as stated: most_common_values has one entry for every header, an empty
\* list for a column whose values are all empty after trimming.
C8_EntryForEveryHeader ==
    TrendsOfGrid =>
        /\ ~result.raised
        /\ "trends" \in DOMAIN Payload
        /\ DictKeys(MostCommonValues) = HeaderNames
        /\ \A h \in HeaderNames :
              ColumnValues(h) = <<>> => DictAt(MostCommonValues, h) = <<>>

\* C8 amended: most_common_values has one entry for every header name whose
\* column holds a value that is not empty after trimming, and none for a column
\* whose values are all empty: its keys are a subset of the header names, and no
\* entry is an empty list.
C8_EntryForNonEmptyColumns ==
    TrendsOfGrid =>
        /\ ~result.raised
        /\ "trends" \in DOMAIN Payload
        /\ DictKeys(MostCommonValues) = {h \in HeaderNames : ColumnValues(h) # <<>>}
        /\ Len(MostCommonValues) = Cardinality(DictKeys(MostCommonValues))
        /\ \A h \in DictKeys(MostCommonValues) : DictAt(MostCommonValues, h) # <<>>

\* trends over a grid with an all-empty column beside a column with values
C8_Witness ==
    /\ TrendsOfGrid
    /\ \E h \in HeaderNames : ColumnValues(h) = <<>>
    /\ \E h \in HeaderNames : ColumnValues(h) # <<>>

\* C9: the list of a column holds at most 3 (value, frequency) pairs over the
\* trimmed non-empty values of the column, each frequency the exact number of
\* occurrences, in descending frequency, values of equal frequency in the order
\* they were first met in the sheet, and no value left out is more frequent
\* than one that is kept.
C9_TopThree ==
    TrendsOfGrid =>
        \A h \in DictKeys(MostCommonValues) :
            LET top == DictAt(MostCommonValues, h)
            IN  /\ Len(top) <= 3
                /\ Len(top) = 3 \/ Len(top) = Cardinality(Range(ColumnValues(h)))
                /\ \A i \in 1..Len(top) :
                      /\ top[i][1] \in Range(ColumnValues(h))
                      /\ top[i][2] = Frequency(h, top[i][1])
                /\ \A i, j \in 1..Len(top) : top[i][1] = top[j][1] => i = j
                /\ \A i \in 1..(Len(top) - 1) :
                      \/ top[i][2] > top[i + 1][2]
                      \/ /\ top[i][2] = top[i + 1][2]
                         /\ FirstSeen(h, top[i][1]) < FirstSeen(h, top[i + 1][1])
                /\ \A v \in Range(ColumnValues(h)) :
                      (\A i \in 1..Len(top) : top[i][1] # v) =>
                          /\ \A i \in 1..Len(top) : Frequency(h, v) <= top[i][2]
                          /\ \A i \in 1..Len(top) :
                                Frequency(h, v) = top[i][2] => FirstSeen(h, top[i][1]) < FirstSeen(h, v)

\* a column of four distinct values, the most frequent one met after the
\* others, two of the kept ones tied, and one left out
C9_Witness ==
    /\ TrendsOfGrid
    /\ \E h \in DictKeys(MostCommonValues) :
          /\ Cardinality(Range(ColumnValues(h))) = 4
          /\ FirstSeen(h, DictAt(MostCommonValues, h)[1][1]) > 1
          /\ DictAt(MostCommonValues, h)[1][2] > DictAt(MostCommonValues, h)[2][2]
          /\ DictAt(MostCommonValues, h)[2][2] = DictAt(MostCommonValues, h)[3][2]

----------------------------------------------------------------------------
(* The layout of the report *)

SuccessfulReport == Returned /\ Tool = "create_summary_report" /\ HasSuccess

RecordCount == Len(SheetValues) - 1

\* 10 + h + 2 + 1 + min(3, r)
ReportRowCount ==
    10 + Len(SheetHeaders) + 2 + 1 + (IF RecordCount < 3 THEN RecordCount ELSE 3)

\* the decimal numeral of n, and nothing else
IsNumeral(s, n) == isdigit(s) /\ DecimalValue(s) = n /\ (Len(s) > 1 => s[1] # "0")

\* the text H1:K{n}
IsReportRange(s, n) ==
    /\ Len(s) >= 2
    /\ s[1] = "H1:K"
    /\ IsNumeral(Tail(s), n)

\* the text {prefix}H1:K{n}
IsReportRangeUnder(prefix, s, n) ==
    /\ Len(s) > Len(prefix)
    /\ SubSeq(s, 1, Len(prefix)) = prefix
    /\ IsReportRange(SubSeq(s, Len(prefix) + 1, Len(s)), n)

\* C11: for every successful create_summary_report over a source of h headers
\* and r >= 1 records, the rows written are, in this order: title, generated-on,
\* source range, blank, summary heading, the three count rows, blank,
\* column-names heading, one numbered row per header, blank, sample heading,
\* header row, one row per sample record -- 10 + h + 2 + 1 + min(3, r) rows;
\* the range written is H1:K{n} for that number n of rows, and the payload's
\* report_rows is n.
C11_ReportLayout ==
    SuccessfulReport =>
        LET h == Len(SheetHeaders)
            n == ReportRowCount
            rows == ReportData
            t == invocation.target
        IN  /\ ReadGrid
            /\ Len(remote_calls) = 2
            /\ Len(rows) = n
            /\ rows[1] = <<invocation.report_title>>
            /\ rows[2] = << <<"Generated on:">>, invocation.now >>
            /\ rows[3] = << <<"Source Range:">>, t.sheet_name \o <<"!">> \o t.range_name >>
            /\ rows[4] = <<EmptyStr>>
            /\ rows[5] = << <<"Summary Statistics:">> >>
            /\ Len(rows[6]) = 2 /\ rows[6][1] = <<"Total Rows:">> /\ IsNumeral(rows[6][2], RecordCount)
            /\ Len(rows[7]) = 2 /\ rows[7][1] = <<"Total Columns:">> /\ IsNumeral(rows[7][2], h)
            /\ Len(rows[8]) = 2 /\ rows[8][1] = <<"Non-empty Cells:">>
            /\ IsNumeral(rows[8][2], Payload.source_data_summary.non_empty_cells)
            /\ rows[9] = <<EmptyStr>>
            /\ rows[10] = << <<"Column Names:">> >>
            /\ \A i \in 1..h :
                  /\ Len(rows[10 + i]) = 2
                  /\ Len(rows[10 + i][1]) >= 2
                  /\ rows[10 + i][1][Len(rows[10 + i][1])] = "."
                  /\ IsNumeral(SubSeq(rows[10 + i][1], 1, Len(rows[10 + i][1]) - 1), i)
                  /\ rows[10 + i][2] = SheetHeaders[i]
            /\ rows[10 + h + 1] = <<EmptyStr>>
            /\ rows[10 + h + 2] = << <<"Sample Data (first 3 rows):">> >>
            /\ rows[10 + h + 3] = SheetHeaders
            /\ \A k \in 1..(n - 10 - h - 3) :
                  /\ Len(rows[10 + h + 3 + k]) = h
                  /\ \A j \in 1..h :
                        rows[10 + h + 3 + k][j] = Cell(k + 1, LastPosition(SheetHeaders[j]))
            /\ remote_calls[2].op = "update"
            /\ IsReportRangeUnder(IF t.sheet_name = EmptyStr THEN <<>> ELSE t.sheet_name \o <<"!">>,
                                  remote_calls[2].range, n)
            /\ IsReportRangeUnder(t.sheet_name \o <<"!">>, Payload.report_location, n)
            /\ Payload.report_rows = n

\* a successful report over two headers and four records, written under a
\* sheet name: three samples kept, one record left out
C11_Witness ==
    /\ SuccessfulReport
    /\ Len(SheetHeaders) = 2
    /\ RecordCount = 4
    /\ invocation.target.sheet_name # EmptyStr
    /\ Len(ReportData) = 18

----------------------------------------------------------------------------
(* The session's record of the sheet last touched *)

\* what set_active_sheet leaves for an invocation's target
RecordedId == Some(invocation.target.spreadsheet_id)

RecordedSheetName ==
    Some(IF invocation.target.sheet_name = EmptyStr THEN <<"Sheet1">>
         ELSE invocation.target.sheet_name)

\* C12: the session's record is unset before any tool has run; when a tool
\* returns the record is the spreadsheet id and sheet name of that invocation
\* (an empty sheet name recorded as "Sheet1") whether its remote calls
\* succeeded or failed, and it already was so as each remote call was issued;
\* nothing but a tool invocation changes the record, so after any sequence of
\* invocations it is that of the most recent one.
C12_LastTouched ==
    /\ current_spreadsheet_id = None /\ current_sheet_name = None
    /\ [](Returned =>
            /\ current_spreadsheet_id = RecordedId
            /\ current_sheet_name = RecordedSheetName
            /\ remote_calls # <<>>
            /\ \A c \in 1..Len(remote_calls) :
                  /\ remote_calls[c].session.current_spreadsheet_id = RecordedId
                  /\ remote_calls[c].session.current_sheet_name = RecordedSheetName
                  /\ remote_calls[c].spreadsheetId = invocation.target.spreadsheet_id)
    /\ [][(pc' # "returned") =>
             UNCHANGED <<current_spreadsheet_id, current_sheet_name>>]_vars

\* a tool called without a sheet name on the second spreadsheet, its remote
\* call failed, the record being that spreadsheet and "Sheet1"
C12_Witness ==
    /\ Returned
    /\ SomeCallFailed
    /\ invocation.target.sheet_name = EmptyStr
    /\ invocation.target.spreadsheet_id = <<"sheet-2">>
    /\ current_spreadsheet_id = Some(<<"sheet-2">>)
    /\ current_sheet_name = Some(<<"Sheet1">>)

====
